---- MODULE Spec2Model ----
(***************************************************************************)
(* State-machine model of backend/app.py of the housing price dashboard:   *)
(* the module-level globals (data, model, region_cache, prediction_cache,  *)
(* statistics_cache, cache_timestamp), the cache attached to get_prices,   *)
(* the cache_result decorator, the loaders and the request handlers.       *)
(*                                                                         *)
(* Conventions.                                                            *)
(*  - An optional request parameter is a sequence: <<>> when the parameter *)
(*    is absent (request.args.get gives None), <<s>> when it is s.         *)
(*  - Prices are integers and every float expression of the source is      *)
(*    evaluated in integer arithmetic, rounding down (x * 0.3 is           *)
(*    (3 * x) \div 10).                                                    *)
(*  - A date is a triple <<year, month, day>>.                             *)
(*  - Fields named gen are provenance marks, not part of the JSON: the     *)
(*    number of the load_data call that produced the rows a value was      *)
(*    computed from.                                                       *)
(*  - resp is the outcome of the last operation; time passing (Tick)       *)
(*    leaves it alone.                                                     *)
(***************************************************************************)
EXTENDS Integers, Sequences, FiniteSets, TLC

VARIABLES
    data,              \* global data: the melted frame, or not loaded (None)
    model,             \* global model: "None" or "loaded"
    region_cache,      \* global region_cache: region_id -> sorted rows
    prediction_cache,  \* global prediction_cache: <<region_id, h, conf>> -> result
    statistics_cache,  \* global statistics_cache: key string -> stats
    prices_cache,      \* get_prices.cache: key string -> <<result, timestamp>>
    cache_timestamp,   \* global cache_timestamp
    wrapper_cache,     \* the cache attribute of a cache_result wrapper: <<>> while the
                       \* attribute does not exist, <<dict>> afterwards
    now,               \* time.time()
    resp,              \* the outcome of the last operation
    nreq,              \* number of operations issued so far
    pc,                \* position of the load_data call in progress ("idle" when none)
    ld,                \* locals of the load_data call in progress
    pp                 \* locals of the /api/predict request in progress

vars == <<data, model, region_cache, prediction_cache, statistics_cache, prices_cache,
          cache_timestamp, wrapper_cache, now, resp, nreq, pc, ld, pp>>

(***************************************************************************)
(* Bounds of the model.                                                    *)
(***************************************************************************)
MaxLoads == 2      \* load_data calls in one behaviour
MaxRequests == 2   \* operations other than load_data in one behaviour
MaxTicks == 2      \* steps of the clock in one behaviour

(***************************************************************************)
(* Generic helpers.                                                        *)
(***************************************************************************)
Absent == <<>>
Some(s) == <<s>>
IsAbsent(p) == p = <<>>

\* Python's str() of an optional parameter inside an f-string: None prints as "None".
Str(p) == IF IsAbsent(p) THEN "None" ELSE p[1]

\* Python truthiness of an optional string parameter (None and "" are falsy).
Truthy(p) == ~IsAbsent(p) /\ p[1] # ""

Max(a, b) == IF a >= b THEN a ELSE b
Min(a, b) == IF a <= b THEN a ELSE b

EmptyMap == [k \in {} |-> 0]

\* d with d[k] = v (a dict assignment)
Put(d, k, v) == [x \in (DOMAIN d) \cup {k} |-> IF x = k THEN v ELSE d[x]]

\* d without the keys in ks
Without(d, ks) == [x \in (DOMAIN d) \ ks |-> d[x]]

RECURSIVE SumSeq(_)
SumSeq(s) == IF s = <<>> THEN 0 ELSE Head(s) + SumSeq(Tail(s))

\* s[-n:] of Python for n > 0
LastN(s, n) == IF Len(s) <= n THEN s ELSE SubSeq(s, Len(s) - n + 1, Len(s))

RECURSIVE SqrtBetween(_, _, _)
SqrtBetween(n, lo, hi) ==
    IF lo >= hi THEN lo
    ELSE LET mid == (lo + hi + 1) \div 2
         IN IF mid * mid <= n THEN SqrtBetween(n, mid, hi) ELSE SqrtBetween(n, lo, mid - 1)

\* floor of the square root
ISqrt(n) == SqrtBetween(n, 0, Min(n, 46340))

(***************************************************************************)
(* Dates.                                                                  *)
(***************************************************************************)
DateLE(a, b) ==
    \/ a[1] < b[1]
    \/ a[1] = b[1] /\ a[2] < b[2]
    \/ a[1] = b[1] /\ a[2] = b[2] /\ a[3] <= b[3]

IsLeap(y) == (y % 4 = 0 /\ y % 100 # 0) \/ y % 400 = 0

DaysInMonth(y, m) ==
    IF m = 2 THEN (IF IsLeap(y) THEN 29 ELSE 28)
    ELSE IF m \in {4, 6, 9, 11} THEN 30 ELSE 31

\* date + pd.DateOffset(months=k): the month moves, the day is clipped to the month's end
AddMonths(d, k) ==
    LET t == d[1] * 12 + (d[2] - 1) + k
        y == t \div 12
        m == (t % 12) + 1
    IN <<y, m, Min(d[3], DaysInMonth(y, m))>>

\* the rows of a frame in ascending Date order (sort_values('Date')), by insertion
RECURSIVE InsertByDate(_, _)
InsertByDate(row, s) ==
    IF s = <<>> THEN <<row>>
    ELSE IF DateLE(Head(s).Date, row.Date) THEN <<Head(s)>> \o InsertByDate(row, Tail(s))
    ELSE <<row>> \o s

RECURSIVE SortByDate(_)
SortByDate(s) == IF s = <<>> THEN <<>> ELSE InsertByDate(s[Len(s)], SortByDate(SubSeq(s, 1, Len(s) - 1)))


\* strftime('%Y-%m-%d')
Digit(n) ==
    CASE n = 0 -> "0" [] n = 1 -> "1" [] n = 2 -> "2" [] n = 3 -> "3" [] n = 4 -> "4"
      [] n = 5 -> "5" [] n = 6 -> "6" [] n = 7 -> "7" [] n = 8 -> "8" [] n = 9 -> "9"

Pad2(n) == Digit((n \div 10) % 10) \o Digit(n % 10)

strftime(d) == Pad2(d[1] \div 100) \o Pad2(d[1] % 100) \o "-" \o Pad2(d[2]) \o "-" \o Pad2(d[3])

\* The calendar dates a date string of a request can name in this model.
KnownDates == {<<y, m, d>> : y \in 2000..2001, m \in 1..12, d \in {1, 15}}

\* pandas' conversion of the string a Date column is compared with: the date the
\* string names, or <<>> when the comparison raises (the string names no date).
DateStrings == [d \in KnownDates |-> strftime(d)]

ParseDate(s) ==
    IF \E d \in KnownDates : DateStrings[d] = s
    THEN CHOOSE d \in KnownDates : DateStrings[d] = s
    ELSE <<>>

(***************************************************************************)
(* Data.csv.  One raw row per region: the id columns and one price per     *)
(* date column, in the file's column order.  The file is an input of       *)
(* load_data and may differ from one load to the next.                     *)
(***************************************************************************)
MonthDate(n) == <<2000 + ((n - 1) \div 12), ((n - 1) % 12) + 1, 1>>

FileA ==
    [r \in {"r1", "r2"} |->
        IF r = "r1"
        THEN [RegionName |-> "Alpha", RegionType |-> "msa", StateName |-> "NY", SizeRank |-> 2,
              cols |-> << [Date |-> <<2000, 12, 1>>, Price |-> 2000],
                          [Date |-> <<2000, 11, 1>>, Price |-> 1000],
                          [Date |-> <<2001, 1, 1>>, Price |-> 3000] >>]
        ELSE [RegionName |-> "Beta", RegionType |-> "msa", StateName |-> "CA", SizeRank |-> 1,
              cols |-> [i \in 1..13 |-> [Date |-> MonthDate(i), Price |-> 2500]]]]

FileB ==
    [r \in {"r1"} |->
        [RegionName |-> "Alpha", RegionType |-> "msa", StateName |-> "NY", SizeRank |-> 1,
         cols |-> << [Date |-> <<2000, 11, 1>>, Price |-> 1100],
                     [Date |-> <<2000, 12, 1>>, Price |-> 2200],
                     [Date |-> <<2001, 1, 1>>, Price |-> 3300],
                     [Date |-> <<2001, 2, 1>>, Price |-> 4400] >>]]

Files == {FileA, FileB}

(***************************************************************************)
(* Frames.  The rows of one region: the id columns and the (Date, Price)   *)
(* rows; gen is the load that produced them.                               *)
(***************************************************************************)
EmptyFrame(g) ==
    [RegionName |-> "", RegionType |-> "", StateName |-> "", SizeRank |-> 0, rows |-> <<>>,
     gen |-> g]

NoData == [loaded |-> FALSE, gen |-> 0, table |-> EmptyMap]

\* load_data, lines 58-93: the melted frame, sorted by RegionID and Date.  The files of
\* this model hold no missing price, so the interpolation and fills change nothing.
melted(file, g) ==
    [loaded |-> TRUE, gen |-> g,
     table |-> [r \in DOMAIN file |->
                   [RegionName |-> file[r].RegionName, RegionType |-> file[r].RegionType,
                    StateName |-> file[r].StateName, SizeRank |-> file[r].SizeRank,
                    rows |-> SortByDate(file[r].cols), gen |-> g]]]

\* data[data['RegionID'] == region_id]
RowsOf(d, region_id) ==
    IF region_id \in DOMAIN d.table THEN d.table[region_id] ELSE EmptyFrame(d.gen)

\* frame.sort_values('Date')
sort_values(frame) == [frame EXCEPT !.rows = SortByDate(frame.rows)]

\* data['RegionID'].unique()
unique_regions(d) == DOMAIN d.table

\* lines 97-98: region_cache[region_id] = data[data['RegionID'] == region_id].sort_values('Date')
\* for the regions in rs; entries of other regions stay as they are
IndexRegions(rc, d, rs) ==
    [r \in (DOMAIN rc) \cup rs |-> IF r \in rs THEN sort_values(RowsOf(d, r)) ELSE rc[r]]

\* lines 294-298 (and 241-245): the pre-cached rows, else the rows filtered from data
RegionData(rc, d, region_id) ==
    IF region_id \in DOMAIN rc THEN rc[region_id] ELSE sort_values(RowsOf(d, region_id))


(***************************************************************************)
(* Request parameters of /api/predict.                                     *)
(***************************************************************************)
DigitChars == {"0", "1", "2", "3", "4", "5", "6", "7", "8", "9"}

DigitValue(c) ==
    CASE c = "0" -> 0 [] c = "1" -> 1 [] c = "2" -> 2 [] c = "3" -> 3 [] c = "4" -> 4
      [] c = "5" -> 5 [] c = "6" -> 6 [] c = "7" -> 7 [] c = "8" -> 8 [] c = "9" -> 9

RECURSIVE DigitsValue(_, _)
DigitsValue(cs, acc) ==
    IF cs = <<>> THEN acc ELSE DigitsValue(Tail(cs), acc * 10 + DigitValue(Head(cs)))

\* int(s) for a string given as its sequence of characters: an optional sign and at least
\* one digit.  [ok |-> FALSE] stands for the ValueError int raises on anything else.
ParseInt(cs) ==
    LET signed == cs # <<>> /\ Head(cs) \in {"+", "-"}
        ds == IF signed THEN Tail(cs) ELSE cs
    IN IF ds # <<>> /\ \A i \in 1..Len(ds) : ds[i] \in DigitChars
       THEN [ok |-> TRUE,
             value |-> IF signed /\ Head(cs) = "-" THEN 0 - DigitsValue(ds, 0)
                       ELSE DigitsValue(ds, 0)]
       ELSE [ok |-> FALSE, value |-> 0]

\* line 279: int(request.args.get('months_ahead', 5))
MonthsAheadArg(p) == IF IsAbsent(p) THEN [ok |-> TRUE, value |-> 5] ELSE ParseInt(p[1])

\* a clamp that forgets the upper limit
ClampHorizonNoCeiling(months_ahead) == Max(1, months_ahead)

\* line 281: max(1, min(months_ahead, 12))
ClampHorizon(months_ahead) == Max(1, Min(months_ahead, 12))

\* str.lower() on the strings a request of this model sends
Lower(s) == CASE s = "True" -> "true" [] s = "TRUE" -> "true" [] OTHER -> s

\* line 282: request.args.get('include_confidence', 'false').lower() == 'true'
IncludeConfidenceArg(p) == Lower(IF IsAbsent(p) THEN "false" ELSE p[1]) = "true"

(***************************************************************************)
(* The forecast of predict_prices, lines 303-393.                          *)
(***************************************************************************)
Prices(frame) == [i \in 1..Len(frame.rows) |-> frame.rows[i].Price]

\* np.mean
Mean(xs) == SumSeq(xs) \div Len(xs)

\* np.std (population standard deviation)
StdDev(xs) == ISqrt(SumSeq([i \in 1..Len(xs) |-> (xs[i] - Mean(xs)) * (xs[i] - Mean(xs))]) \div Len(xs))

\* lines 320-328: the slope of np.polyfit(arange(n), ys, 1), as a percentage of avg_price,
\* clamped to [-1, 1]; the result is in thousandths
TrendCoef(ys, avg_price) ==
    IF Len(ys) >= 2
    THEN LET n == Len(ys)
             sx == SumSeq([i \in 1..n |-> i - 1])
             sxx == SumSeq([i \in 1..n |-> (i - 1) * (i - 1)])
             sy == SumSeq(ys)
             sxy == SumSeq([i \in 1..n |-> (i - 1) * ys[i]])
             slope100 == ((n * sxy - sx * sy) * 100) \div (n * sxx - sx * sx)
         IN Max(Min((slope100 * 1000) \div avg_price, 1000), -1000)
    ELSE 0

\* line 345: np.random.normal(0, weighted_avg * 0.005, months_ahead)[i].  A draw is
\* named by a seed; step i of seed s is -1, 0 or +1 standard deviations.
RandomChange(seed, i, weighted_avg) == (((seed * (i + 1) + 1) % 3) - 1) * ((weighted_avg * 5) \div 1000)

\* lines 304-334: the figures the loop works from
Baseline(frame) ==
    LET ps == Prices(frame)
        latest_year == LastN(ps, 12)
        avg_price == Mean(latest_year)
        avg_6m == Mean(LastN(ps, 6))
        avg_3m == Mean(LastN(ps, 3))
    IN [std_dev |-> StdDev(latest_year),
        trend_coef |-> TrendCoef(latest_year, avg_price),
        last_price |-> ps[Len(ps)],
        weighted_avg |-> (avg_3m * 4 + avg_6m * 3 + avg_price * 3) \div 10]

\* lines 352-363: the predicted price of step i (0-based)
PredictedPrice(b, seed, i) ==
    LET raw == b.weighted_avg + RandomChange(seed, i, b.weighted_avg)
                 + ((b.trend_coef * i * b.weighted_avg) \div 1000000)
    IN CASE i = 0 -> (b.last_price * 7 + raw * 3) \div 10
         [] i = 1 -> (b.last_price * 4 + raw * 6) \div 10
         [] i = 2 -> (b.last_price * 2 + raw * 8) \div 10
         [] OTHER -> raw

\* an interval whose lower bound is not held at 85% of the predicted price
ConfidenceIntervalNoFloor(b, seed, i) ==
    LET predicted_price == PredictedPrice(b, seed, i)
        interval_width == (b.std_dev * (10 + 3 * i)) \div 10
    IN <<predicted_price - interval_width, predicted_price + interval_width>>

\* lines 372-381: [lower_bound, upper_bound] of step i
ConfidenceInterval(b, seed, i) ==
    LET predicted_price == PredictedPrice(b, seed, i)
        interval_width == (b.std_dev * (10 + 3 * i)) \div 10
        lower_bound == predicted_price - interval_width
        upper_bound == predicted_price + interval_width
    IN <<Max(lower_bound, (predicted_price * 85) \div 100), upper_bound>>

\* lines 337-393: the result for a non-empty frame
Forecast(region_id, frame, months_ahead, include_confidence, seed) ==
    LET last_date == frame.rows[Len(frame.rows)].Date
        b == Baseline(frame)
        base == [region_id |-> region_id,
                 region_name |-> frame.RegionName,
                 state_name |-> frame.StateName,
                 dates |-> [k \in 1..months_ahead |-> strftime(AddMonths(last_date, k))],
                 predictions |-> [k \in 1..months_ahead |-> PredictedPrice(b, seed, k - 1)],
                 gen |-> frame.gen]
    IN IF include_confidence
       THEN [f \in (DOMAIN base) \cup {"confidence_intervals"} |->
                IF f = "confidence_intervals"
                THEN [k \in 1..months_ahead |-> ConfidenceInterval(b, seed, k - 1)]
                ELSE base[f]]
       ELSE base

(***************************************************************************)
(* Descriptive statistics of get_statistics, lines 461-470.                *)
(***************************************************************************)
RECURSIVE InsertSorted(_, _)
InsertSorted(x, s) ==
    IF s = <<>> THEN <<x>>
    ELSE IF Head(s) <= x THEN <<Head(s)>> \o InsertSorted(x, Tail(s))
    ELSE <<x>> \o s

RECURSIVE Sorted(_)
Sorted(s) == IF s = <<>> THEN <<>> ELSE InsertSorted(Head(s), Sorted(Tail(s)))

\* np.median
Median(xs) ==
    LET s == Sorted(xs)
        n == Len(s)
    IN IF n % 2 = 1 THEN s[(n + 1) \div 2] ELSE (s[n \div 2] + s[(n \div 2) + 1]) \div 2

\* np.percentile(xs, 90), linear interpolation between the closest ranks
Percentile90(xs) ==
    LET s == Sorted(xs)
        n == Len(s)
        lo == (9 * (n - 1)) \div 10
        frac == (9 * (n - 1)) % 10
    IN IF lo + 1 >= n THEN s[n] ELSE s[lo + 1] + (((s[lo + 2] - s[lo + 1]) * frac) \div 10)

\* ((prices - mean)**3).mean() / std**3, in hundredths, on deviations taken in tens;
\* nan when the standard deviation is 0 (numpy divides 0 by 0 without raising)
Skewness(xs) ==
    LET m == Mean(xs)
        sd == StdDev(xs) \div 10
        cube(i) == LET d == (xs[i] - m) \div 10 IN d * d * d
    IN IF sd = 0 THEN [nan |-> TRUE, value |-> 0]
       ELSE [nan |-> FALSE,
             value |-> ((SumSeq([i \in 1..Len(xs) |-> cube(i)]) \div Len(xs)) * 100) \div (sd * sd * sd)]

Stats(frame) ==
    LET xs == Prices(frame)
    IN [mean |-> Mean(xs), median |-> Median(xs), stdDev |-> StdDev(xs),
        min |-> Sorted(xs)[1], max |-> Sorted(xs)[Len(xs)],
        percentile90 |-> Percentile90(xs), skewness |-> Skewness(xs), gen |-> frame.gen]

(***************************************************************************)
(* Date filtering of get_prices and get_statistics (lines 247-251 and      *)
(* 449-453).                                                               *)
(***************************************************************************)
\* whether one of the two comparisons raises: a filter that is applied (its parameter is
\* truthy) and whose string names no date
FilterRaises(start_date, end_date) ==
    \/ Truthy(start_date) /\ ParseDate(start_date[1]) = <<>>
    \/ Truthy(end_date) /\ ParseDate(end_date[1]) = <<>>

\* the rows with lo <= Date (when a start date applies) and Date <= hi (when an end date
\* applies)
FilterDates(frame, start_date, end_date) ==
    LET lo == IF Truthy(start_date) THEN ParseDate(start_date[1]) ELSE <<>>
        hi == IF Truthy(end_date) THEN ParseDate(end_date[1]) ELSE <<>>
        keep(r) == /\ Truthy(start_date) => DateLE(lo, r.Date)
                   /\ Truthy(end_date) => DateLE(r.Date, hi)
    IN [frame EXCEPT !.rows = SelectSeq(frame.rows, keep)]

\* lines 253-259
PricesResult(filtered) ==
    [region_name |-> IF filtered.rows # <<>> THEN filtered.RegionName ELSE "",
     region_type |-> IF filtered.rows # <<>> THEN filtered.RegionType ELSE "",
     state_name |-> IF filtered.rows # <<>> THEN filtered.StateName ELSE "",
     dates |-> [i \in 1..Len(filtered.rows) |-> strftime(filtered.rows[i].Date)],
     prices |-> Prices(filtered),
     gen |-> filtered.gen]

\* line 230: f"prices_{region_id}_{start_date}_{end_date}"
PricesKey(region_id, start_date, end_date) ==
    "prices_" \o Str(region_id) \o "_" \o Str(start_date) \o "_" \o Str(end_date)

\* line 436: f"{region_id}_{start_date}_{end_date}"
StatisticsKey(region_id, start_date, end_date) ==
    Str(region_id) \o "_" \o Str(start_date) \o "_" \o Str(end_date)

\* lines 208-210: the region listing, sorted by SizeRank
RECURSIVE RegionsByRank(_, _)
RegionsByRank(d, rs) ==
    IF rs = {} THEN <<>>
    ELSE LET r == CHOOSE x \in rs : \A y \in rs : d.table[x].SizeRank <= d.table[y].SizeRank
         IN <<[RegionID |-> r, RegionName |-> d.table[r].RegionName,
               RegionType |-> d.table[r].RegionType, StateName |-> d.table[r].StateName,
               SizeRank |-> d.table[r].SizeRank]>> \o RegionsByRank(d, rs \ {r})

get_cached_regions(d) == [regions |-> RegionsByRank(d, DOMAIN d.table), gen |-> d.gen]


(***************************************************************************)
(* Inputs of the operations.                                               *)
(***************************************************************************)
\* the draws of the random perturbation (see RandomChange)
Seeds == {0, 1}
RegionArgs == {Absent, Some("r1"), Some("r2"), Some("r9")}
MonthsAheadArgs == {Absent, Some(<<"0">>), Some(<<"-", "3">>), Some(<<"2", "0">>), Some(<<"x">>)}
ConfidenceArgs == {Absent, Some("True")}
DateArgs == {Absent, Some("2000-12-01"), Some("None")}
Threads == {1, 2}

\* The inputs a specification draws from, and the number of operations it issues.
MaxOnce == 1    \* operations in a behaviour that draws from every input
MaxCalls == 3   \* calls of the lasting wrapper in one behaviour

AnyInputs ==
    [budget |-> MaxOnce, regions |-> RegionArgs, months |-> MonthsAheadArgs,
     confidence |-> ConfidenceArgs, dates |-> DateArgs]

ForecastInputs ==
    [budget |-> MaxRequests, regions |-> {Some("r1"), Some("r2")},
     months |-> {Some(<<"2", "0">>)}, confidence |-> {Some("True")}, dates |-> {Absent}]

QueryInputs ==
    [budget |-> MaxRequests, regions |-> {Some("r1"), Some("r2")}, months |-> {Absent},
     confidence |-> {Absent}, dates |-> {Absent, Some("2000-12-01")}]

StartupInputs ==
    [budget |-> MaxOnce, regions |-> {Absent, Some("r1"), Some("r9")},
     months |-> {Absent, Some(<<"x">>)}, confidence |-> {Absent},
     dates |-> {Absent, Some("None")}]

KeyInputs ==
    [budget |-> MaxRequests, regions |-> {Some("r1")}, months |-> {Absent},
     confidence |-> {Absent}, dates |-> {Absent, Some("None"), Some("2000-12-01")}]

EntryInputs ==
    [budget |-> MaxRequests, regions |-> {Absent, Some("r1"), Some("r9")},
     months |-> {Absent, Some(<<"2", "0">>), Some(<<"x">>)},
     confidence |-> {Absent, Some("True")}, dates |-> {Absent, Some("None")}]

RaceInputs ==
    [budget |-> MaxCalls, regions |-> {Some("r1")}, months |-> {Absent},
     confidence |-> {Absent}, dates |-> {Absent}]

WrapperInputs ==
    [budget |-> MaxCalls, regions |-> {Absent}, months |-> {Absent}, confidence |-> {Absent},
     dates |-> {Absent}]

expiry_seconds == 3600   \* cache_result's default and the literal of get_prices
TickStep == expiry_seconds \div 2

(***************************************************************************)
(* Responses.                                                              *)
(***************************************************************************)
\* the parameters of a request; a parameter the endpoint does not take is absent
NoRequest ==
    [region_id |-> Absent, months_ahead |-> Absent, include_confidence |-> Absent,
     start_date |-> Absent, end_date |-> Absent]

PredictRequest(region_id, months_ahead, include_confidence) ==
    [NoRequest EXCEPT !.region_id = region_id, !.months_ahead = months_ahead,
                      !.include_confidence = include_confidence]

RangeRequest(region_id, start_date, end_date) ==
    [NoRequest EXCEPT !.region_id = region_id, !.start_date = start_date,
                      !.end_date = end_date]

\* req is the request answered (the actions fill it in); hit tells whether the body was
\* taken from a cache; key is the cache key the handler computed ("" when it computed
\* none); at is the time of the response; raised tells that an exception left the handler
Response(ep, status, body, hit, key) ==
    [ep |-> ep, req |-> NoRequest, status |-> status, body |-> body, hit |-> hit,
     key |-> key, at |-> now, raised |-> FALSE]

ErrorBody(msg) == [error |-> msg]

DataNotLoaded(ep) == Response(ep, 500, ErrorBody("Data not loaded"), FALSE, "")

\* an exception that leaves the handler: Flask answers 500 with its own HTML page
Unhandled(ep) ==
    [Response(ep, 500, [html |-> "Internal Server Error"], FALSE, "") EXCEPT !.raised = TRUE]

\* the outcome of an operation that is no HTTP request
Returned(ep, body) ==
    Response(ep, 0, body, FALSE, "")

(***************************************************************************)
(* predict_prices, lines 270-400.                                          *)
(***************************************************************************)
\* line 288
PredictKey(region_id, months_ahead, include_confidence) ==
    <<region_id[1], ClampHorizon(MonthsAheadArg(months_ahead).value),
      IncludeConfidenceArg(include_confidence)>>

\* the checks without the cache lookup of lines 289-290
PredictEntryNoLookup(region_id, months_ahead, include_confidence) ==
    IF ~data.loaded
    THEN [done |-> TRUE, resp |-> DataNotLoaded("predict")]
    ELSE IF ~MonthsAheadArg(months_ahead).ok
    THEN [done |-> TRUE, resp |-> Unhandled("predict")]
    ELSE IF ~Truthy(region_id)
    THEN [done |-> TRUE,
          resp |-> Response("predict", 400, ErrorBody("region_id is required"), FALSE, "")]
    ELSE [done |-> FALSE,
          resp |-> Response("predict", 0, ErrorBody(""), FALSE,
                            PredictKey(region_id, months_ahead, include_confidence))]

\* the checks with the parameters read before data is looked at
PredictEntryParsingFirst(region_id, months_ahead, include_confidence) ==
    IF ~MonthsAheadArg(months_ahead).ok
    THEN [done |-> TRUE, resp |-> Unhandled("predict")]
    ELSE IF ~data.loaded
    THEN [done |-> TRUE, resp |-> DataNotLoaded("predict")]
    ELSE IF ~Truthy(region_id)
    THEN [done |-> TRUE,
          resp |-> Response("predict", 400, ErrorBody("region_id is required"), FALSE, "")]
    ELSE LET cache_key == PredictKey(region_id, months_ahead, include_confidence)
         IN IF cache_key \in DOMAIN prediction_cache
            THEN [done |-> TRUE,
                  resp |-> Response("predict", 200, prediction_cache[cache_key], TRUE, cache_key)]
            ELSE [done |-> FALSE, resp |-> Response("predict", 0, ErrorBody(""), FALSE, cache_key)]

\* lines 275-290: the checks before the try block.  done tells that the handler has
\* answered; otherwise key is the key to compute
PredictEntry(region_id, months_ahead, include_confidence) ==
    IF ~data.loaded
    THEN [done |-> TRUE, resp |-> DataNotLoaded("predict")]
    ELSE IF ~MonthsAheadArg(months_ahead).ok
    THEN [done |-> TRUE, resp |-> Unhandled("predict")]
    ELSE IF ~Truthy(region_id)
    THEN [done |-> TRUE,
          resp |-> Response("predict", 400, ErrorBody("region_id is required"), FALSE, "")]
    ELSE LET cache_key == PredictKey(region_id, months_ahead, include_confidence)
         IN IF cache_key \in DOMAIN prediction_cache
            THEN [done |-> TRUE,
                  resp |-> Response("predict", 200, prediction_cache[cache_key], TRUE, cache_key)]
            ELSE [done |-> FALSE, resp |-> Response("predict", 0, ErrorBody(""), FALSE, cache_key)]

\* a handler that stores its not-found answer as the entry of the key
PredictComputeCachingNotFound(cache_key, region_data, seed, cache) ==
    IF region_data.rows = <<>>
    THEN [resp |-> Response("predict", 404,
                            ErrorBody("No data found for region " \o cache_key[1]), FALSE,
                            cache_key),
          cache |-> Put(cache, cache_key, ErrorBody("No data found for region " \o cache_key[1]))]
    ELSE LET result == Forecast(cache_key[1], region_data, cache_key[2], cache_key[3], seed)
         IN [resp |-> Response("predict", 200, result, FALSE, cache_key),
             cache |-> Put(cache, cache_key, result)]

\* an insert that keeps the entry another request has stored meanwhile
PredictComputeKeepingFirst(cache_key, region_data, seed, cache) ==
    IF region_data.rows = <<>>
    THEN [resp |-> Response("predict", 404,
                            ErrorBody("No data found for region " \o cache_key[1]), FALSE,
                            cache_key),
          cache |-> cache]
    ELSE LET result == Forecast(cache_key[1], region_data, cache_key[2], cache_key[3], seed)
         IN [resp |-> Response("predict", 200, result, FALSE, cache_key),
             cache |-> IF cache_key \in DOMAIN cache THEN cache
                       ELSE Put(cache, cache_key, result)]

\* lines 300-398: the answer for the rows read, and the cache after it
PredictCompute(cache_key, region_data, seed, cache) ==
    IF region_data.rows = <<>>
    THEN [resp |-> Response("predict", 404,
                            ErrorBody("No data found for region " \o cache_key[1]), FALSE,
                            cache_key),
          cache |-> cache]
    ELSE LET result == Forecast(cache_key[1], region_data, cache_key[2], cache_key[3], seed)
         IN [resp |-> Response("predict", 200, result, FALSE, cache_key),
             cache |-> Put(cache, cache_key, result)]

(***************************************************************************)
(* get_prices, lines 216-268.                                              *)
(***************************************************************************)
\* lines 233-236: whether the cached entry of the key is served
PricesCacheServes(cache_key) ==
    /\ cache_key \in DOMAIN prices_cache
    /\ now - prices_cache[cache_key][2] < expiry_seconds

PricesOutcome(region_id, start_date, end_date) ==
    IF ~data.loaded
    THEN [resp |-> DataNotLoaded("prices"), cache |-> prices_cache]
    ELSE IF ~Truthy(region_id)
    THEN [resp |-> Response("prices", 400, ErrorBody("region_id is required"), FALSE, ""),
          cache |-> prices_cache]
    ELSE LET cache_key == PricesKey(region_id, start_date, end_date)
         IN IF PricesCacheServes(cache_key)
            THEN [resp |-> Response("prices", 200, prices_cache[cache_key][1], TRUE, cache_key),
                  cache |-> prices_cache]
            ELSE IF FilterRaises(start_date, end_date)
            THEN [resp |-> Response("prices", 500, ErrorBody("Error processing data"), FALSE,
                                    cache_key),
                  cache |-> prices_cache]
            ELSE LET filtered_data == FilterDates(RegionData(region_cache, data, region_id[1]),
                                                  start_date, end_date)
                     result == PricesResult(filtered_data)
                 IN [resp |-> Response("prices", 200, result, FALSE, cache_key),
                     cache |-> Put(prices_cache, cache_key, <<result, now>>)]

(***************************************************************************)
(* get_statistics, lines 422-477.                                          *)
(***************************************************************************)
StatisticsOutcome(region_id, start_date, end_date) ==
    IF ~data.loaded
    THEN [resp |-> DataNotLoaded("statistics"), cache |-> statistics_cache]
    ELSE IF ~Truthy(region_id)
    THEN [resp |-> Response("statistics", 400, ErrorBody("region_id is required"), FALSE, ""),
          cache |-> statistics_cache]
    ELSE LET cache_key == StatisticsKey(region_id, start_date, end_date)
         IN IF cache_key \in DOMAIN statistics_cache
            THEN [resp |-> Response("statistics", 200, statistics_cache[cache_key], TRUE,
                                    cache_key),
                  cache |-> statistics_cache]
            ELSE IF FilterRaises(start_date, end_date)
            THEN [resp |-> Response("statistics", 500, ErrorBody("Error calculating statistics"),
                                    FALSE, cache_key),
                  cache |-> statistics_cache]
            ELSE LET filtered_data ==
                         FilterDates(IF region_id[1] \in DOMAIN region_cache
                                     THEN region_cache[region_id[1]]
                                     ELSE RowsOf(data, region_id[1]),
                                     start_date, end_date)
                 IN IF filtered_data.rows = <<>>
                    THEN [resp |-> Response("statistics", 404,
                                            ErrorBody("No data available for the specified parameters"),
                                            FALSE, cache_key),
                          cache |-> statistics_cache]
                    ELSE [resp |-> Response("statistics", 200, Stats(filtered_data), FALSE,
                                            cache_key),
                          cache |-> Put(statistics_cache, cache_key, Stats(filtered_data))]

(***************************************************************************)
(* get_region_details, lines 402-419.                                      *)
(***************************************************************************)
RegionDetailsOutcome(region_id) ==
    IF ~data.loaded THEN DataNotLoaded("region")
    ELSE LET region_data == RowsOf(data, region_id)
         IN IF region_data.rows = <<>>
            THEN Response("region", 404, ErrorBody("Region " \o region_id \o " not found"),
                          FALSE, "")
            ELSE Response("region", 200,
                          [region_id |-> region_id, region_name |-> region_data.RegionName,
                           region_type |-> region_data.RegionType,
                           state_name |-> region_data.StateName,
                           size_rank |-> region_data.SizeRank],
                          FALSE, "")

(***************************************************************************)
(* cache_result, lines 157-187, around get_cached_regions (called with no  *)
(* argument): the outcome of one call of a wrapper whose cache attribute   *)
(* is wcache.                                                              *)
(***************************************************************************)
\* line 167
WrapperKey == <<"get_cached_regions", <<>>, {}>>

\* lines 170-175: whether the stored entry is returned
WrapperServes(wcache) ==
    /\ ~IsAbsent(wcache)
    /\ WrapperKey \in DOMAIN wcache[1]
    /\ now - wcache[1][WrapperKey][2] < expiry_seconds

\* a wrapper that stores the result of a skip_cache call
WrapperOutcomeStoringSkipped(wcache, skip_cache) ==
    IF ~skip_cache /\ WrapperServes(wcache)
    THEN [result |-> wcache[1][WrapperKey][1], hit |-> TRUE, cache |-> wcache]
    ELSE [result |-> get_cached_regions(data), hit |-> FALSE,
          cache |-> Some(Put(IF IsAbsent(wcache) THEN EmptyMap ELSE wcache[1], WrapperKey,
                             <<get_cached_regions(data), now>>))]

WrapperOutcome(wcache, skip_cache) ==
    IF skip_cache
    THEN [result |-> get_cached_regions(data), hit |-> FALSE, cache |-> wcache]
    ELSE IF WrapperServes(wcache)
    THEN [result |-> wcache[1][WrapperKey][1], hit |-> TRUE, cache |-> wcache]
    ELSE [result |-> get_cached_regions(data), hit |-> FALSE,
          cache |-> Some(Put(IF IsAbsent(wcache) THEN EmptyMap ELSE wcache[1], WrapperKey,
                             <<get_cached_regions(data), now>>))]


(***************************************************************************)
(* load_data, lines 42-102, statement by statement.                        *)
(***************************************************************************)
\* the regions of the loaded frame in the order of data['RegionID'].unique()
RegionOrder == <<"r1", "r2">>
UniqueRegionSeq(d) == SelectSeq(RegionOrder, LAMBDA r : r \in unique_regions(d))

\* what the caches held when the load began (kept with the outcome of the load)
CachedKeys ==
    [predictions |-> DOMAIN prediction_cache, statistics |-> DOMAIN statistics_cache,
     prices |-> DOMAIN prices_cache]

\* lines 101 and 102
ClearedCache(cache) == EmptyMap

\* the locals of a thread that handles no request; out is the response its last request
\* was given
NoOutcome == [ep |-> "none"]
IdleLocals ==
    [pc |-> "idle", req |-> NoRequest, key |-> <<>>, region_data |-> EmptyFrame(0),
     out |-> NoOutcome]

Init ==
    /\ data = NoData
    /\ model = "None"
    /\ region_cache = EmptyMap
    /\ prediction_cache = EmptyMap
    /\ statistics_cache = EmptyMap
    /\ prices_cache = EmptyMap
    /\ cache_timestamp = 0
    /\ wrapper_cache = Absent
    /\ now = 0
    /\ resp = Returned("start", ErrorBody(""))
    /\ nreq = 0
    /\ pc = "idle"
    /\ ld = [count |-> 0, melted |-> NoData, todo |-> <<>>,
             had |-> [predictions |-> {}, statistics |-> {}, prices |-> {}]]
    /\ pp = [t \in Threads |-> IdleLocals]

NoRequestInFlight == \A t \in Threads : pp[t].pc = "idle"

\* the whole call, with nothing running beside it
load_data ==
    /\ pc = "idle" /\ NoRequestInFlight
    /\ ld.count < MaxLoads
    /\ \E file \in Files :
          LET m == melted(file, ld.count + 1)
          IN /\ cache_timestamp' = now
             /\ data' = m
             /\ region_cache' = IndexRegions(region_cache, m, unique_regions(m))
             /\ prediction_cache' = ClearedCache(prediction_cache)
             /\ statistics_cache' = ClearedCache(statistics_cache)
             /\ ld' = [count |-> ld.count + 1, melted |-> m, todo |-> <<>>, had |-> CachedKeys]
             /\ resp' = Returned("load_data", CachedKeys)
    /\ UNCHANGED <<model, prices_cache, wrapper_cache, now, nreq, pc, pp>>

\* lines 47-91: the timestamp, and the frame built from the file
LoadBegin ==
    /\ pc = "idle"
    /\ ld.count < MaxLoads
    /\ \E file \in Files :
          ld' = [count |-> ld.count + 1, melted |-> melted(file, ld.count + 1), todo |-> <<>>,
                 had |-> CachedKeys]
    /\ cache_timestamp' = now
    /\ pc' = "L93"
    /\ UNCHANGED <<data, model, region_cache, prediction_cache, statistics_cache, prices_cache,
                   wrapper_cache, now, resp, nreq, pp>>

\* lines 93-96: data = melted
LoadAssign ==
    /\ pc = "L93"
    /\ data' = ld.melted
    /\ ld' = [ld EXCEPT !.todo = UniqueRegionSeq(ld.melted)]
    /\ pc' = "L97"
    /\ UNCHANGED <<model, region_cache, prediction_cache, statistics_cache, prices_cache,
                   cache_timestamp, wrapper_cache, now, resp, nreq, pp>>

\* lines 97-98: one turn of the loop
LoadIndex ==
    /\ pc = "L97" /\ ld.todo # <<>>
    /\ region_cache' = IndexRegions(region_cache, data, {Head(ld.todo)})
    /\ ld' = [ld EXCEPT !.todo = Tail(ld.todo)]
    /\ UNCHANGED <<data, model, prediction_cache, statistics_cache, prices_cache,
                   cache_timestamp, wrapper_cache, now, resp, nreq, pc, pp>>

\* line 101
LoadClearPredictions ==
    /\ pc = "L97" /\ ld.todo = <<>>
    /\ prediction_cache' = ClearedCache(prediction_cache)
    /\ pc' = "L102"
    /\ UNCHANGED <<data, model, region_cache, statistics_cache, prices_cache, cache_timestamp,
                   wrapper_cache, now, resp, nreq, ld, pp>>

\* line 102, and the return
LoadClearStatistics ==
    /\ pc = "L102"
    /\ statistics_cache' = ClearedCache(statistics_cache)
    /\ pc' = "idle"
    /\ resp' = Returned("load_data", ld.had)
    /\ UNCHANGED <<data, model, region_cache, prediction_cache, prices_cache, cache_timestamp,
                   wrapper_cache, now, nreq, ld, pp>>

(***************************************************************************)
(* load_model_ as __main__ calls it, lines 501-507, before any request is  *)
(* served: the model is loaded, or the load raises and model stays None.   *)
(***************************************************************************)
load_model_ ==
    /\ pc = "idle" /\ nreq = 0 /\ resp.ep # "load_model_"
    /\ \E loads \in BOOLEAN :
          /\ model' = IF loads THEN "loaded" ELSE model
          /\ resp' = Returned("load_model_", [loaded |-> loads])
    /\ UNCHANGED <<data, region_cache, prediction_cache, statistics_cache, prices_cache,
                   cache_timestamp, wrapper_cache, now, nreq, pc, ld, pp>>

(***************************************************************************)
(* clear_region_cache, lines 137-154.                                      *)
(***************************************************************************)
clear_region_cache(in) ==
    /\ pc = "idle" /\ nreq < in.budget
    /\ \E region_id \in in.regions :
          /\ IF Truthy(region_id)
             THEN /\ region_cache' = Without(region_cache, {region_id[1]})
                  /\ prediction_cache' =
                        Without(prediction_cache,
                                {k \in DOMAIN prediction_cache : k[1] = region_id[1]})
                  /\ statistics_cache' = Without(statistics_cache, {region_id[1]})
             ELSE /\ region_cache' = EmptyMap
                  /\ prediction_cache' = EmptyMap
                  /\ statistics_cache' = EmptyMap
          /\ resp' = Returned("clear_region_cache", [region_id |-> region_id])
    /\ nreq' = nreq + 1
    /\ UNCHANGED <<data, model, prices_cache, cache_timestamp, wrapper_cache, now, pc, ld, pp>>

(***************************************************************************)
(* The request handlers, each as one step.                                 *)
(***************************************************************************)
health_check(in) ==
    /\ pc = "idle" /\ nreq < in.budget
    /\ resp' = Response("health", 200,
                        [status |-> "ok", data_loaded |-> data.loaded,
                         model_loaded |-> model # "None"], FALSE, "")
    /\ nreq' = nreq + 1
    /\ UNCHANGED <<data, model, region_cache, prediction_cache, statistics_cache, prices_cache,
                   cache_timestamp, wrapper_cache, now, pc, ld, pp>>

\* lines 198-214: the wrapper is made anew by every request, so it starts without a cache
\* attribute and is dropped with the request
get_regions(in) ==
    /\ pc = "idle" /\ nreq < in.budget
    /\ resp' = IF ~data.loaded THEN DataNotLoaded("regions")
               ELSE LET out == WrapperOutcome(Absent, FALSE)
                    IN Response("regions", 200, out.result, out.hit, "")
    /\ nreq' = nreq + 1
    /\ UNCHANGED <<data, model, region_cache, prediction_cache, statistics_cache, prices_cache,
                   cache_timestamp, wrapper_cache, now, pc, ld, pp>>

\* a call of a wrapper that cache_result made once and that lives on, with or without
\* skip_cache=True
wrapper(in) ==
    /\ pc = "idle" /\ nreq < in.budget
    /\ data.loaded
    /\ \E skip_cache \in BOOLEAN :
          LET out == WrapperOutcome(wrapper_cache, skip_cache)
          IN /\ wrapper_cache' = out.cache
             /\ resp' = [Returned("wrapper", out.result) EXCEPT
                            !.hit = out.hit, !.key = IF skip_cache THEN "skip_cache" ELSE ""]
    /\ nreq' = nreq + 1
    /\ UNCHANGED <<data, model, region_cache, prediction_cache, statistics_cache, prices_cache,
                   cache_timestamp, now, pc, ld, pp>>

get_prices(in) ==
    /\ pc = "idle" /\ nreq < in.budget
    /\ \E region_id \in in.regions, start_date \in in.dates, end_date \in in.dates :
          LET out == PricesOutcome(region_id, start_date, end_date)
          IN /\ prices_cache' = out.cache
             /\ resp' = [out.resp EXCEPT !.req = RangeRequest(region_id, start_date, end_date)]
    /\ nreq' = nreq + 1
    /\ UNCHANGED <<data, model, region_cache, prediction_cache, statistics_cache,
                   cache_timestamp, wrapper_cache, now, pc, ld, pp>>

get_statistics(in) ==
    /\ pc = "idle" /\ nreq < in.budget
    /\ \E region_id \in in.regions, start_date \in in.dates, end_date \in in.dates :
          LET out == StatisticsOutcome(region_id, start_date, end_date)
          IN /\ statistics_cache' = out.cache
             /\ resp' = [out.resp EXCEPT !.req = RangeRequest(region_id, start_date, end_date)]
    /\ nreq' = nreq + 1
    /\ UNCHANGED <<data, model, region_cache, prediction_cache, prices_cache,
                   cache_timestamp, wrapper_cache, now, pc, ld, pp>>

get_region_details(in) ==
    /\ pc = "idle" /\ nreq < in.budget
    /\ \E region_id \in in.regions :
          /\ Truthy(region_id)
          /\ resp' = [RegionDetailsOutcome(region_id[1]) EXCEPT
                         !.req = RangeRequest(region_id, Absent, Absent)]
    /\ nreq' = nreq + 1
    /\ UNCHANGED <<data, model, region_cache, prediction_cache, statistics_cache, prices_cache,
                   cache_timestamp, wrapper_cache, now, pc, ld, pp>>

predict_prices(in) ==
    /\ pc = "idle" /\ NoRequestInFlight /\ nreq < in.budget
    /\ \E region_id \in in.regions, months_ahead \in in.months,
          include_confidence \in in.confidence, seed \in Seeds :
          LET entry == PredictEntry(region_id, months_ahead, include_confidence)
              req == PredictRequest(region_id, months_ahead, include_confidence)
          IN IF entry.done
             THEN /\ resp' = [entry.resp EXCEPT !.req = req]
                  /\ UNCHANGED prediction_cache
             ELSE LET out == PredictCompute(entry.resp.key,
                                            RegionData(region_cache, data, region_id[1]),
                                            seed, prediction_cache)
                  IN /\ resp' = [out.resp EXCEPT !.req = req]
                     /\ prediction_cache' = out.cache
    /\ nreq' = nreq + 1
    /\ UNCHANGED <<data, model, region_cache, statistics_cache, prices_cache,
                   cache_timestamp, wrapper_cache, now, pc, ld, pp>>

\* time passes
Tick ==
    /\ now < MaxTicks * TickStep
    /\ now' = now + TickStep
    /\ UNCHANGED <<data, model, region_cache, prediction_cache, statistics_cache, prices_cache,
                   cache_timestamp, wrapper_cache, resp, nreq, pc, ld, pp>>

(***************************************************************************)
(* /api/predict in the steps a thread can be preempted between.            *)
(***************************************************************************)
\* lines 275-290
PredictBegin(t, in) ==
    /\ pp[t].pc = "idle" /\ nreq < in.budget
    /\ \E region_id \in in.regions, months_ahead \in in.months,
          include_confidence \in in.confidence :
          LET entry == PredictEntry(region_id, months_ahead, include_confidence)
              req == PredictRequest(region_id, months_ahead, include_confidence)
          IN IF entry.done
             THEN /\ resp' = [entry.resp EXCEPT !.req = req]
                  /\ pp' = [pp EXCEPT ![t].out = resp']
             ELSE /\ pp' = [pp EXCEPT ![t] = [pp[t] EXCEPT !.pc = "L294", !.req = req,
                                                           !.key = entry.resp.key]]
                  /\ UNCHANGED resp
    /\ nreq' = nreq + 1
    /\ UNCHANGED <<data, model, region_cache, prediction_cache, statistics_cache, prices_cache,
                   cache_timestamp, wrapper_cache, now, pc, ld>>

\* lines 294-298
PredictRead(t) ==
    /\ pp[t].pc = "L294"
    /\ pp' = [pp EXCEPT ![t] = [pp[t] EXCEPT
                                   !.pc = "L300",
                                   !.region_data = RegionData(region_cache, data, pp[t].key[1])]]
    /\ UNCHANGED <<data, model, region_cache, prediction_cache, statistics_cache, prices_cache,
                   cache_timestamp, wrapper_cache, now, resp, nreq, pc, ld>>

\* lines 300-398
PredictFinish(t) ==
    /\ pp[t].pc = "L300"
    /\ \E seed \in Seeds :
          LET out == PredictCompute(pp[t].key, pp[t].region_data, seed, prediction_cache)
          IN /\ resp' = [out.resp EXCEPT !.req = pp[t].req]
             /\ prediction_cache' = out.cache
    /\ pp' = [pp EXCEPT ![t] = [IdleLocals EXCEPT !.out = resp']]
    /\ UNCHANGED <<data, model, region_cache, statistics_cache, prices_cache,
                   cache_timestamp, wrapper_cache, now, nreq, pc, ld>>

(***************************************************************************)
(* Specifications.                                                         *)
(***************************************************************************)
\* startup, and operations of any kind with any input
Next ==
    \/ load_data
    \/ load_model_
    \/ clear_region_cache(AnyInputs)
    \/ health_check(AnyInputs)
    \/ get_regions(AnyInputs)
    \/ get_prices(AnyInputs)
    \/ get_statistics(AnyInputs)
    \/ get_region_details(AnyInputs)
    \/ predict_prices(AnyInputs)
    \/ wrapper(AnyInputs)
    \/ Tick

Spec == Init /\ [][Next]_vars

\* startup and one /api/predict request with any input
NextPredict ==
    \/ load_data
    \/ load_model_
    \/ predict_prices(AnyInputs)

SpecPredict == Init /\ [][NextPredict]_vars

\* the forecast endpoint over time, and what invalidates its cache
NextForecast ==
    \/ load_data
    \/ clear_region_cache(ForecastInputs)
    \/ predict_prices(ForecastInputs)
    \/ Tick

SpecForecast == Init /\ [][NextForecast]_vars

\* the price and statistics endpoints over time
NextQuery ==
    \/ load_data
    \/ get_prices(QueryInputs)
    \/ get_statistics(QueryInputs)
    \/ Tick

SpecQuery == Init /\ [][NextQuery]_vars

\* a lasting cache_result wrapper, and the one of get_regions
NextWrapper ==
    \/ load_data
    \/ wrapper(WrapperInputs)
    \/ get_regions(WrapperInputs)
    \/ Tick

SpecWrapper == Init /\ [][NextWrapper]_vars

\* load_data and the /api/predict requests of two threads, interleaved
NextConc ==
    \/ LoadBegin
    \/ LoadAssign
    \/ LoadIndex
    \/ LoadClearPredictions
    \/ LoadClearStatistics
    \/ \E t \in Threads : PredictBegin(t, ForecastInputs)
    \/ \E t \in Threads : PredictRead(t)
    \/ \E t \in Threads : PredictFinish(t)

SpecConc == Init /\ [][NextConc]_vars

\* the requests of every endpoint, before and after the data is loaded
NextStartup ==
    \/ load_data
    \/ health_check(StartupInputs)
    \/ get_regions(StartupInputs)
    \/ get_prices(StartupInputs)
    \/ get_statistics(StartupInputs)
    \/ get_region_details(StartupInputs)
    \/ predict_prices(StartupInputs)

SpecStartup == Init /\ [][NextStartup]_vars

\* forecasts and statistics, and the invalidation of a region
NextInvalidate ==
    \/ load_data
    \/ predict_prices(ForecastInputs)
    \/ get_statistics(QueryInputs)
    \/ clear_region_cache(ForecastInputs)

SpecInvalidate == Init /\ [][NextInvalidate]_vars

\* the price and statistics requests of one region with date parameters of every kind
NextKeys ==
    \/ load_data
    \/ get_prices(KeyInputs)
    \/ get_statistics(KeyInputs)

SpecKeys == Init /\ [][NextKeys]_vars

\* forecast and statistics requests that succeed and that fail
NextEntries ==
    \/ load_data
    \/ predict_prices(EntryInputs)
    \/ get_statistics(EntryInputs)

SpecEntries == Init /\ [][NextEntries]_vars

\* the /api/predict requests of two threads for one key, interleaved, between loads
NextRace ==
    \/ load_data
    \/ \E t \in Threads : PredictBegin(t, RaceInputs)
    \/ \E t \in Threads : PredictRead(t)
    \/ \E t \in Threads : PredictFinish(t)

SpecRace == Init /\ [][NextRace]_vars


(***************************************************************************)
(* The claims.  A request step is a step that raises nreq; resp is the     *)
(* outcome of the operation before it and resp' its own outcome.           *)
(***************************************************************************)
RequestStep(ep) == nreq' = nreq + 1 /\ resp'.ep = ep

\* C1: the first /api/predict request after load_data, for a key that prediction_cache
\* held when the load began, is not answered from the cache, and a forecast it returns
\* is computed from the rows of that load.
C1_ReloadRecomputesForecast ==
    [][(/\ resp.ep = "load_data"
        /\ RequestStep("predict")
        /\ resp'.status \in {200, 404}
        /\ resp'.key \in resp.body.predictions)
       => /\ ~resp'.hit
          /\ resp'.status = 200 => resp'.body.gen = data.gen]_vars

\* C2: the first /api/prices or /api/statistics request after load_data, for a key its
\* cache held when the load began, is not answered from the cache, and the result is
\* computed from the rows of that load.
C2_ReloadRecomputesQueries ==
    [][(/\ resp.ep = "load_data"
        /\ \/ RequestStep("prices") /\ resp'.key \in resp.body.prices
           \/ RequestStep("statistics") /\ resp'.key \in resp.body.statistics
        /\ resp'.status = 200)
       => /\ ~resp'.hit
          /\ resp'.body.gen = data.gen]_vars

\* C3: a forecast stored for a key when the key was last answered is not served once
\* expiry_seconds have passed since then: the request recomputes.
C3_ForecastEntryExpires ==
    [][(/\ resp.ep = "predict" /\ resp.status = 200
        /\ RequestStep("predict") /\ resp'.status = 200
        /\ resp'.key = resp.key
        /\ now - resp.at >= expiry_seconds)
       => ~resp'.hit]_vars

\* C4: of two successful /api/predict requests for the same key with no other operation
\* between them and less than expiry_seconds apart, the second is a cache hit and returns
\* the result of the first, whatever the random draw of the second.
C4_RepeatedForecastIdentical ==
    [][(/\ resp.ep = "predict" /\ resp.status = 200
        /\ RequestStep("predict") /\ resp'.status = 200
        /\ resp'.key = resp.key
        /\ now' - resp.at < expiry_seconds)
       => /\ resp'.hit
          /\ resp'.body = resp.body]_vars

\* C4's case: a forecast answered from the cache, some time after it was stored, where
\* a recomputation could have drawn another result
C4_Witness ==
    /\ resp.ep = "predict" /\ resp.status = 200 /\ resp.hit
    /\ now > 0
    /\ resp.key[1] \in DOMAIN region_cache
    /\ \E seed \in Seeds :
          resp.body # Forecast(resp.key[1], region_cache[resp.key[1]], resp.key[2],
                               resp.key[3], seed)

\* the horizon of the claim: 1 below 1, 12 above 12, the requested number between
C5_Horizon(months_ahead) ==
    IF months_ahead < 1 THEN 1 ELSE IF months_ahead > 12 THEN 12 ELSE months_ahead

\* C5: a successful /api/predict response has h predictions, h dates and, with
\* include_confidence, h intervals, for h the requested months_ahead brought into 1..12;
\* the result is stored under the key with h.
C5_HorizonClamped ==
    (resp.ep = "predict" /\ resp.status = 200)
    => LET h == C5_Horizon(MonthsAheadArg(resp.req.months_ahead).value)
           conf == IncludeConfidenceArg(resp.req.include_confidence)
       IN /\ Len(resp.body.predictions) = h
          /\ Len(resp.body.dates) = h
          /\ conf => Len(resp.body.confidence_intervals) = h
          /\ resp.key = <<resp.req.region_id[1], h, conf>>
          /\ resp.key \in DOMAIN prediction_cache

\* C5's case: months_ahead=20 answered with 12 predictions and 12 intervals
C5_Witness ==
    /\ resp.ep = "predict" /\ resp.status = 200
    /\ resp.req.months_ahead = Some(<<"2", "0">>)
    /\ resp.req.include_confidence = Some("True")
    /\ Len(resp.body.predictions) = 12
    /\ Len(resp.body.confidence_intervals) = 12

\* the other parameters of the request are well formed
C6_WellFormed(req) ==
    /\ MonthsAheadArg(req.months_ahead).ok
    /\ ~FilterRaises(req.start_date, req.end_date)

\* C6: with data loaded, a request of /api/prices, /api/predict, /api/statistics or
\* /api/region/<region_id> for a region that neither data nor region_cache holds is
\* answered 404 with a non-empty error message.
C6_UnknownRegionNotFound ==
    (/\ resp.ep \in {"prices", "predict", "statistics", "region"}
     /\ data.loaded
     /\ Truthy(resp.req.region_id)
     /\ resp.req.region_id[1] \notin (DOMAIN data.table) \cup (DOMAIN region_cache)
     /\ C6_WellFormed(resp.req))
    => /\ resp.status = 404
       /\ resp.body.error # ""

\* C7: while model is None and the data is loaded, a /api/predict request for a region of
\* the data returns no forecast: it fails, with an error that is neither not-found nor
\* data-not-loaded.
C7_NoForecastWithoutModel ==
    (/\ resp.ep = "predict"
     /\ model = "None"
     /\ data.loaded
     /\ Truthy(resp.req.region_id)
     /\ resp.req.region_id[1] \in DOMAIN data.table
     /\ MonthsAheadArg(resp.req.months_ahead).ok)
    => /\ resp.status \notin {200, 404}
       /\ resp.body # ErrorBody("Data not loaded")

\* C8: in every state, also in the middle of load_data, data and every region_cache entry
\* come from the same load.
C8_ReloadAtomic ==
    \A r \in DOMAIN region_cache : region_cache[r].gen = data.gen

\* C9: when load_data has returned, region_cache holds an entry for exactly the regions
\* of the loaded data.
C9_StoreRecreated ==
    resp.ep = "load_data" => DOMAIN region_cache = unique_regions(data)

\* C10: a wrapper call with skip_cache=True returns what the wrapped function computes
\* now and leaves the wrapper's cache as it is; the call without the flag that follows
\* it, while the stored entry is younger than expiry_seconds, returns the stored value.
C10_SkipCacheLeavesCache ==
    [][/\ (RequestStep("wrapper") /\ resp'.key = "skip_cache")
          => /\ resp'.body = get_cached_regions(data)
             /\ ~resp'.hit
             /\ wrapper_cache' = wrapper_cache
       /\ (/\ resp.ep = "wrapper" /\ resp.key = "skip_cache"
           /\ RequestStep("wrapper") /\ resp'.key # "skip_cache"
           /\ ~IsAbsent(wrapper_cache) /\ WrapperKey \in DOMAIN wrapper_cache[1]
           /\ now - wrapper_cache[1][WrapperKey][2] < expiry_seconds)
          => resp'.body = wrapper_cache[1][WrapperKey][1]]_vars

\* C10's case: a skip_cache call has returned a fresh result that differs from the
\* entry stored before it, and the entry is still there
C10_Witness ==
    /\ resp.ep = "wrapper" /\ resp.key = "skip_cache"
    /\ ~IsAbsent(wrapper_cache) /\ WrapperKey \in DOMAIN wrapper_cache[1]
    /\ wrapper_cache[1][WrapperKey][1] # resp.body
    /\ wrapper_cache[1][WrapperKey][2] < now

\* C11: with data loaded, a /api/prices, /api/predict or /api/statistics request without
\* region_id is answered 400, whatever its other parameters, and leaves prediction_cache,
\* statistics_cache, the price-slice cache, region_cache and data as they were.
C11_MissingRegionRejected ==
    [][(/\ \/ RequestStep("prices")
           \/ RequestStep("predict")
           \/ RequestStep("statistics")
        /\ data.loaded
        /\ IsAbsent(resp'.req.region_id))
       => /\ resp'.status = 400
          /\ UNCHANGED <<prediction_cache, statistics_cache, prices_cache, region_cache,
                         data>>]_vars

\* C12: two /api/predict requests for one key may both compute.  The insert of each
\* computation replaces the entry of the key and leaves the other entries alone, so the
\* entry is the result of the later insert; a request answered at the lookup returns the
\* stored entry and changes nothing; and the entry of the key last answered is the result
\* last returned for it, until a reload.
C12_RaceConverges ==
    [][/\ \A t \in Threads :
             (pp[t].pc = "L300" /\ pp'[t].pc = "idle" /\ resp'.status = 200)
             => prediction_cache' = Put(prediction_cache, pp[t].key, resp'.body)
       /\ (/\ nreq' = nreq + 1 /\ resp'.ep = "predict" /\ resp'.status = 200
           /\ \A t \in Threads : pp'[t].pc = pp[t].pc)
          => /\ resp'.hit
             /\ resp'.body = prediction_cache[resp'.key]
             /\ UNCHANGED prediction_cache
       /\ (resp'.ep = "predict" /\ resp'.status = 200)
          => /\ resp'.key \in DOMAIN prediction_cache'
             /\ prediction_cache'[resp'.key] = resp'.body]_vars

\* C12's case: with one load done before them, both threads have computed the same key
\* and got different results, and the cache holds the result returned last
C12_Witness ==
    /\ NoRequestInFlight /\ ld.count = 1
    /\ \A t \in Threads :
          /\ pp[t].out.ep = "predict" /\ pp[t].out.status = 200 /\ ~pp[t].out.hit
          /\ pp[t].out.key = resp.key
    /\ pp[1].out.body # pp[2].out.body
    /\ resp \in {pp[1].out, pp[2].out}
    /\ prediction_cache[resp.key] = resp.body

\* C13: a /api/predict request that does not succeed is answered by the handler itself
\* with a JSON body {'error': ...} and a 4xx or 5xx status; no exception leaves the
\* handler.
C13_ErrorsEnveloped ==
    (resp.ep = "predict" /\ resp.status # 200)
    => /\ ~resp.raised
       /\ DOMAIN resp.body = {"error"}
       /\ resp.status \in 400..599

\* C14: while data is None, a request of /api/regions, /api/prices, /api/predict,
\* /api/region/<id> or /api/statistics is answered with a 5xx status and the error
\* 'Data not loaded', whatever its parameters, and changes no cache; /api/health answers
\* 200 with status ok and data_loaded false.
C14_DataNotLoaded ==
    [][/\ (/\ ~data.loaded
           /\ \E ep \in {"regions", "prices", "predict", "region", "statistics"} :
                 RequestStep(ep))
          => /\ resp'.status \in 500..599
             /\ resp'.body = ErrorBody("Data not loaded")
             /\ UNCHANGED <<region_cache, prediction_cache, statistics_cache, prices_cache,
                            wrapper_cache>>
       /\ (~data.loaded /\ RequestStep("health"))
          => /\ resp'.status = 200
             /\ resp'.body.status = "ok"
             /\ resp'.body.data_loaded = FALSE]_vars

\* C14's case: before the data is loaded, a /api/predict request whose months_ahead is no
\* integer has been answered 'Data not loaded'
C14_Witness ==
    /\ ~data.loaded
    /\ resp.ep = "predict" /\ resp.req.months_ahead = Some(<<"x">>)
    /\ resp.status = 500 /\ resp.body = ErrorBody("Data not loaded")

\* the statistics_cache keys of the requests for a region
C15_StatisticsKeysOf(r) ==
    {StatisticsKey(Some(r), s, e) : s \in DateArgs, e \in DateArgs}

\* C15: clear_region_cache(r) leaves no prediction_cache entry and no statistics_cache
\* entry of region r, and leaves the entries of the other regions as they were.
C15_SelectiveInvalidation ==
    [][(RequestStep("clear_region_cache") /\ Truthy(resp'.body.region_id))
       => LET r == resp'.body.region_id[1]
          IN /\ \A k \in DOMAIN prediction_cache' : k[1] # r
             /\ DOMAIN statistics_cache' \cap C15_StatisticsKeysOf(r) = {}
             /\ \A k \in DOMAIN prediction_cache :
                   k[1] # r => /\ k \in DOMAIN prediction_cache'
                               /\ prediction_cache'[k] = prediction_cache[k]
             /\ \A k \in DOMAIN statistics_cache \ C15_StatisticsKeysOf(r) :
                   /\ k \in DOMAIN statistics_cache'
                   /\ statistics_cache'[k] = statistics_cache[k]]_vars

\* C16: of two successful /api/regions requests with no other operation between them and
\* less than expiry_seconds apart, the second is answered from the cache of cache_result.
C16_RegionListingMemoized ==
    [][(/\ resp.ep = "regions" /\ resp.status = 200
        /\ RequestStep("regions") /\ resp'.status = 200
        /\ now' - resp.at < expiry_seconds)
       => resp'.hit]_vars

\* C17: a /api/prices or /api/statistics request answered from the entry that the request
\* before it stored has the region_id, start_date and end_date of that request (an
\* omitted date being no date string).
C17_KeysIdentifyTriples ==
    [][(/\ resp.ep \in {"prices", "statistics"} /\ resp.status = 200 /\ ~resp.hit
        /\ RequestStep(resp.ep)
        /\ resp'.hit /\ resp'.key = resp.key)
       => resp'.req = resp.req]_vars

\* the half-width of step i for the standard deviation s: s * (1 + 0.3 * i)
C18_HalfWidth(s, i) == (s * (10 + 3 * i)) \div 10

\* C18: in a forecast computed with include_confidence, the interval of every step i is
\* [max(p_i - w_i, 0.85 * p_i), p_i + w_i] for the prediction p_i of the step and
\* w_i = s * (1 + 0.3 * i), s being the standard deviation of the last 12 prices of the
\* region; so 0.85 * p_i <= lower <= p_i <= upper for p_i >= 0, and w_i does not
\* decrease with i.
C18_IntervalFormula ==
    (/\ resp.ep = "predict" /\ resp.status = 200 /\ ~resp.hit
     /\ IncludeConfidenceArg(resp.req.include_confidence))
    => LET frame == RegionData(region_cache, data, resp.key[1])
           s == StdDev(LastN(Prices(frame), 12))
       IN \A k \in 1..resp.key[2] :
             LET p == resp.body.predictions[k]
                 w == C18_HalfWidth(s, k - 1)
                 lower == resp.body.confidence_intervals[k][1]
                 upper == resp.body.confidence_intervals[k][2]
             IN /\ upper = p + w
                /\ lower = Max(p - w, (p * 85) \div 100)
                /\ p >= 0 => (p * 85) \div 100 <= lower /\ lower <= p /\ p <= upper
                /\ k > 1 => C18_HalfWidth(s, k - 2) <= w

\* C18's case: a forecast of 12 steps computed with intervals from prices that vary: a
\* step whose lower bound is the 85% floor because p - w lies below it, and a half-width
\* that has grown from the first step to the last
C18_Witness ==
    /\ resp.ep = "predict" /\ resp.status = 200 /\ ~resp.hit
    /\ IncludeConfidenceArg(resp.req.include_confidence)
    /\ resp.key[2] = 12
    /\ \E k \in 1..12 :
          LET p == resp.body.predictions[k]
          IN /\ resp.body.confidence_intervals[k][1] = (p * 85) \div 100
             /\ resp.body.confidence_intervals[k][2] - p > p - (p * 85) \div 100
    /\ resp.body.confidence_intervals[12][2] - resp.body.predictions[12]
          > resp.body.confidence_intervals[1][2] - resp.body.predictions[1]

\* C19: when load_data has completed and no request is in flight, every prediction_cache
\* entry of a region of the loaded data was computed from the rows of that load.
C19_NoStaleForecastAfterReload ==
    (pc = "idle" /\ NoRequestInFlight /\ data.loaded)
    => \A k \in DOMAIN prediction_cache :
          k[1] \in DOMAIN data.table => prediction_cache[k].gen = data.gen

\* C20: after every step, the prediction_cache entry of a key (r, h, c) is a forecast with
\* region_id r, h predictions, h dates and, exactly when c holds, h confidence intervals;
\* and a /api/predict or /api/statistics request answered 400, 404 or 500 leaves
\* prediction_cache and statistics_cache as they were.
C20_EntriesWellFormed ==
    [][/\ \A k \in DOMAIN prediction_cache' :
             LET e == prediction_cache'[k]
             IN /\ {"region_id", "predictions", "dates"} \subseteq DOMAIN e
                /\ e.region_id = k[1]
                /\ Len(e.predictions) = k[2]
                /\ Len(e.dates) = k[2]
                /\ ("confidence_intervals" \in DOMAIN e) <=> k[3]
                /\ k[3] => Len(e.confidence_intervals) = k[2]
       /\ (/\ RequestStep("predict") \/ RequestStep("statistics")
           /\ resp'.status \in {400, 404, 500})
          => UNCHANGED <<prediction_cache, statistics_cache>>]_vars

\* C20's case: with a 12-step forecast with intervals stored, a /api/predict request for
\* an unknown region has been answered 404
C20_Witness ==
    /\ \E k \in DOMAIN prediction_cache : k[2] = 12 /\ k[3]
    /\ resp.ep = "predict" /\ resp.status = 404
    /\ Truthy(resp.req.region_id)

====
